---- MODULE Spec2Model ----
(***************************************************************************)
(* A model of FastCloud: the HTTP client and the startup manager of the    *)
(* core library, the Admin service's user-management API and lifespan, and *)
(* the gateway's monitoring.                                               *)
(*                                                                         *)
(* SpecHttp  one call of HttpClient._request_with_retry against a server   *)
(*           whose per-attempt outcome is chosen by the environment.       *)
(* SpecUser  sequences of requests to the user-management API over the     *)
(*           User table.                                                   *)
(* SpecLife  the lifespan UnifiedStartupManager installs (core/startup.py)  *)
(*           and the lifespan of the Admin service (services/admin/main.py)*)
(* SpecClient  the shared HttpClient behind get_http_client and            *)
(*           close_http_client, called by several tasks.                   *)
(* SpecRace  concurrent POST /user requests on one event loop.             *)
(* SpecTrace  start_trace and end_trace of the gateway's MonitoringManager *)
(* SpecErrors  the exception handlers of register_exception_handlers       *)
(* SpecRequest  requests and the sessions get_db gives them; with the      *)
(*           fairness of the framework, SpecRequestFair                    *)
(***************************************************************************)
EXTENDS Integers, Sequences, FiniteSets, TLC

VARIABLES
    \* ---- HttpClient._request_with_retry ----
    retries,         \* self.retries
    pc,              \* "loop" | "returned" | "raised"
    attempt,         \* the loop variable of `for attempt in range(retries + 1)`
    last_exception,  \* the local last_exception
    requests,        \* history: the outcome of every self.client.request call
    sleeps,          \* history: every asyncio.sleep call
    result,          \* what the call ended with
    \* ---- the Admin service's user-management API ----
    table,           \* the User table: id -> row
    clock,           \* datetime.now(), in minutes
    issued,          \* the access tokens create_access_token has produced
    req,             \* the request handled last
    resp,            \* the response to it
    \* ---- UnifiedStartupManager and the application it manages ----
    configured,          \* how the lifespan L was given to the application
    lifespan_context,    \* app.router.lifespan_context
    original_lifespan,   \* the closure variable original_lifespan
    startup_callbacks,   \* self.startup_callbacks
    shutdown_callbacks,  \* self.shutdown_callbacks
    service_id,          \* self.service_id
    mpc,                 \* where the application's lifespan stands
    cb,                  \* the position of the callback loop
    events,              \* history: what the lifespan has done, in order
    yielded,             \* the state the installed lifespan yielded
    register_result,     \* what self.register_service returned
    deregister_result,   \* what self.deregister_service returned
    registry_calls,      \* history: the calls the discovery clients received
    \* ---- the Admin service's lifespan ----
    apc,                 \* where the Admin lifespan stands
    admin_events         \* history: what the Admin lifespan has done

VARIABLES
    \* ---- the shared HttpClient of core/http_client.py ----
    http_client,  \* the module global _http_client
    created,  \* the number of HttpClient instances constructed so far
    closed,  \* the instances whose close() has finished
    tpc,  \* where each task stands
    closing,  \* the instance each task's close_http_client is closing
    client_calls   \* history of the calls of get_http_client and close_http_client

VARIABLES
    \* ---- concurrent requests to the user API ----
    inflight   \* the POST /user request of each task

VARIABLES
    \* ---- MonitoringManager of the gateway ----
    active_traces,  \* self.active_traces, trace id -> context
    contexts,  \* the MonitoringContext objects constructed so far
    uuids,  \* the number of uuid4() calls so far
    last_trace,  \* history, the last call of start_trace or end_trace
    extracted    \* history, the last call of extract_trace_context

VARIABLES
    \* ---- requests and the sessions get_db gives them ----
    sessions,  \* every Session(bind=engine) get_db has constructed
    served,    \* the number of requests received
    rpc,       \* task -> its request: number, position, outcome
    db         \* task -> the session get_db yielded to its request

VARIABLES
    \* ---- the handlers of register_exception_handlers ----
    raised_exc,  \* the exception that left a route handler last
    rendered,    \* the response the exception handler returned for it
    logged       \* every record the exception handlers have logged

httpVars == <<retries, pc, attempt, last_exception, requests, sleeps, result>>

userVars == <<table, clock, issued, req, resp>>

lifeVars == <<configured, lifespan_context, original_lifespan,
              startup_callbacks, shutdown_callbacks, service_id, mpc, cb,
              events, yielded, register_result, deregister_result,
              registry_calls, apc, admin_events>>

clientVars == <<http_client, created, closed, tpc, closing, client_calls>>

raceVars == <<inflight>>

traceVars == <<active_traces, contexts, uuids, last_trace, extracted>>

requestVars == <<sessions, served, rpc, db>>

errorVars == <<raised_exc, rendered, logged>>

vars == <<retries, pc, attempt, last_exception, requests, sleeps, result,
          table, clock, issued, req, resp,
          configured, lifespan_context, original_lifespan,
          startup_callbacks, shutdown_callbacks, service_id, mpc, cb,
          events, yielded, register_result, deregister_result,
          registry_calls, apc, admin_events,
          http_client, created, closed, tpc, closing, client_calls,
          inflight,
          active_traces, contexts, uuids, last_trace, extracted,
          sessions, served, rpc, db, raised_exc, rendered, logged>>

\* what the actions of one component leave alone
exceptHttp == <<userVars, lifeVars, clientVars, raceVars, traceVars, requestVars,
    errorVars>>
exceptUser == <<httpVars, lifeVars, clientVars, raceVars, traceVars, requestVars,
    errorVars>>
exceptLife == <<httpVars, userVars, clientVars, raceVars, traceVars, requestVars,
    errorVars>>
exceptClient == <<userVars, lifeVars, httpVars, raceVars, traceVars, requestVars,
    errorVars>>
exceptRace == <<httpVars, lifeVars, clientVars, traceVars, requestVars,
    errorVars>>
exceptTrace == <<userVars, lifeVars, clientVars, raceVars, httpVars, requestVars,
    errorVars>>
exceptRequest == <<userVars, lifeVars, clientVars, raceVars, traceVars, httpVars,
    errorVars>>
exceptErrors == <<userVars, lifeVars, clientVars, raceVars, traceVars, httpVars,
    requestVars>>

None == "None"

\* a variable that holds no exception, result, request or response yet
NoException == [kind |-> "None"]
NoResult == [kind |-> "None"]
NoRequest == [op |-> "None"]
NoResponse == [kind |-> "None"]

\* the components a specification leaves out stand still in these states
IdleHttp ==
    /\ retries = 3
    /\ pc = "loop"
    /\ attempt = 0
    /\ last_exception = NoException
    /\ requests = <<>>
    /\ sleeps = <<>>
    /\ result = NoResult

IdleUser ==
    /\ table = <<>>
    /\ clock = 0
    /\ issued = {}
    /\ req = NoRequest
    /\ resp = NoResponse

IdleLife ==
    /\ configured = "none"
    /\ lifespan_context = "default"
    /\ original_lifespan = None
    /\ startup_callbacks = <<>>
    /\ shutdown_callbacks = <<>>
    /\ service_id = None
    /\ mpc = "absent"
    /\ cb = 0
    /\ events = <<>>
    /\ yielded = "nothing"
    /\ register_result = "not called"
    /\ deregister_result = "not called"
    /\ registry_calls = <<>>
    /\ apc = "absent"
    /\ admin_events = <<>>

IdleClient ==
    /\ http_client = 0
    /\ created = 0
    /\ closed = {}
    /\ tpc = <<>>
    /\ closing = <<>>
    /\ client_calls = <<>>

IdleRace ==
    /\ inflight = <<>>

IdleTrace ==
    /\ active_traces = <<>>
    /\ contexts = <<>>
    /\ uuids = 0
    /\ last_trace = [op |-> "None", ctx |-> 0, n |-> 0, raised |-> FALSE]
    /\ extracted = [n |-> 0]

IdleRequest ==
    /\ sessions = <<>>
    /\ served = 0
    /\ rpc = <<>>
    /\ db = <<>>

IdleErrors ==
    /\ raised_exc = NoException
    /\ rendered = NoResponse
    /\ logged = <<>>

(***************************************************************************)
(* Bounds                                                                  *)
(***************************************************************************)
\* the largest retry count a client is constructed with
MaxRetries == 3

(***************************************************************************)
(* core/http_client.py                                                     *)
(***************************************************************************)
\* HttpClient.__init__(retries=3)
DefaultRetries == 3

\* the 0.1 of `0.1 * (2 ** attempt)` seconds, in milliseconds
BackoffBaseMs == 100

\* retry counts a client may be constructed with: -1 stands for the negative
\* ones (range(retries + 1) is then empty)
RetryCounts == (0 - 1)..MaxRetries

\* status codes a server answers with
Statuses == {200, 404, 500, 503}

\* httpx.RequestError subclasses
RequestErrors == {"ConnectError", "ReadTimeout"}

\* the response object of attempt n
Response(s, n) == [kind |-> "response", status |-> s, n |-> n]

\* the exception object of attempt n
RequestError(e, n) == [kind |-> "error", exc |-> e, n |-> n]

\* asyncio.sleep(0.1 * (2 ** attempt)) after a 5xx response (line 52)
Sleep5xx(k) == BackoffBaseMs * (2 ^ k)

\* asyncio.sleep(0.1 * (2 ** attempt)) after a transport error (line 59)
SleepErrorLinear(k) == BackoffBaseMs * (k + 1)
SleepError(k) == BackoffBaseMs * (2 ^ k)

InitHttp ==
    /\ retries \in RetryCounts
    /\ pc = "loop"
    /\ attempt = 0
    /\ last_exception = NoException
    /\ requests = <<>>
    /\ sleeps = <<>>
    /\ result = NoResult
    /\ table = <<>>
    /\ clock = 0
    /\ issued = {}
    /\ req = NoRequest
    /\ resp = NoResponse
    /\ IdleLife
    /\ IdleClient
    /\ IdleRace
    /\ IdleTrace
    /\ IdleRequest
    /\ IdleErrors

\* the try branch of one loop iteration: self.client.request answers with
\* status s (lines 46-54)
RequestRespondsRaises(s) ==
    /\ pc = "loop"
    /\ attempt < retries + 1
    /\ LET response == Response(s, attempt) IN
       /\ requests' = Append(requests, response)
       /\ IF s >= 500 /\ attempt < retries
          THEN /\ sleeps' = Append(sleeps, [after |-> attempt, cause |-> "5xx",
                                            ms |-> Sleep5xx(attempt)])
               /\ attempt' = attempt + 1
               /\ UNCHANGED <<pc, result>>
          ELSE IF s >= 500
          THEN /\ pc' = "raised"
               /\ result' = [kind |-> "raise", exc |-> "HTTPStatusError"]
               /\ UNCHANGED <<attempt, sleeps>>
          ELSE /\ pc' = "returned"
               /\ result' = [kind |-> "return", response |-> response]
               /\ UNCHANGED <<attempt, sleeps>>
    /\ UNCHANGED <<retries, last_exception>>
    /\ UNCHANGED exceptHttp

\* the try branch with every 5xx response retried, the last one too
RequestRespondsAlwaysRetries(s) ==
    /\ pc = "loop"
    /\ attempt < retries + 1
    /\ LET response == Response(s, attempt) IN
       /\ requests' = Append(requests, response)
       /\ IF s >= 500
          THEN /\ sleeps' = Append(sleeps, [after |-> attempt, cause |-> "5xx",
                                            ms |-> Sleep5xx(attempt)])
               /\ attempt' = attempt + 1
               /\ UNCHANGED <<pc, result>>
          ELSE /\ pc' = "returned"
               /\ result' = [kind |-> "return", response |-> response]
               /\ UNCHANGED <<attempt, sleeps>>
    /\ UNCHANGED <<retries, last_exception>>
    /\ UNCHANGED exceptHttp

RequestResponds(s) ==
    /\ pc = "loop"
    /\ attempt < retries + 1
    /\ LET response == Response(s, attempt) IN
       /\ requests' = Append(requests, response)
       /\ IF s >= 500 /\ attempt < retries
          THEN /\ sleeps' = Append(sleeps, [after |-> attempt, cause |-> "5xx",
                                            ms |-> Sleep5xx(attempt)])
               /\ attempt' = attempt + 1
               /\ UNCHANGED <<pc, result>>
          ELSE /\ pc' = "returned"
               /\ result' = [kind |-> "return", response |-> response]
               /\ UNCHANGED <<attempt, sleeps>>
    /\ UNCHANGED <<retries, last_exception>>
    /\ UNCHANGED exceptHttp

\* the except branch of one loop iteration: self.client.request raises the
\* httpx.RequestError e (lines 46-48, 55-63)
RequestFailsOneShort(e) ==
    /\ pc = "loop"
    /\ attempt < retries + 1
    /\ LET exc == RequestError(e, attempt) IN
       /\ requests' = Append(requests, exc)
       /\ last_exception' = exc
       /\ IF attempt < retries - 1
          THEN /\ sleeps' = Append(sleeps, [after |-> attempt, cause |-> "error",
                                            ms |-> SleepError(attempt)])
               /\ attempt' = attempt + 1
               /\ UNCHANGED <<pc, result>>
          ELSE /\ pc' = "raised"
               /\ result' = [kind |-> "raise", exc |-> exc]
               /\ UNCHANGED <<attempt, sleeps>>
    /\ UNCHANGED retries
    /\ UNCHANGED exceptHttp

RequestFails(e) ==
    /\ pc = "loop"
    /\ attempt < retries + 1
    /\ LET exc == RequestError(e, attempt) IN
       /\ requests' = Append(requests, exc)
       /\ last_exception' = exc
       /\ IF attempt < retries
          THEN /\ sleeps' = Append(sleeps, [after |-> attempt, cause |-> "error",
                                            ms |-> SleepError(attempt)])
               /\ attempt' = attempt + 1
               /\ UNCHANGED <<pc, result>>
          ELSE /\ pc' = "raised"
               /\ result' = [kind |-> "raise", exc |-> exc]
               /\ UNCHANGED <<attempt, sleeps>>
    /\ UNCHANGED retries
    /\ UNCHANGED exceptHttp

\* the code after the loop, reached when range(retries + 1) is exhausted
\* without a return or a raise (lines 65-69)
LoopExhausted ==
    /\ pc = "loop"
    /\ ~(attempt < retries + 1)
    /\ pc' = "raised"
    /\ result' = IF last_exception # NoException
                 THEN [kind |-> "raise", exc |-> last_exception]
                 ELSE [kind |-> "raise", exc |-> "RuntimeError"]
    /\ UNCHANGED <<retries, attempt, last_exception, requests, sleeps>>
    /\ UNCHANGED exceptHttp

NextHttp ==
    \/ \E s \in Statuses : RequestResponds(s)
    \/ \E e \in RequestErrors : RequestFails(e)
    \/ LoopExhausted

SpecHttp == InitHttp /\ [][NextHttp]_vars

(***************************************************************************)
(* Claims about the HTTP client (checked under SpecHttp)                   *)
(***************************************************************************)
Ended == pc \in {"returned", "raised"}

EveryAttemptFailedWith(kind) ==
    \A k \in 1..Len(requests) : requests[k].kind = kind

EveryAttempt5xx ==
    \A k \in 1..Len(requests) :
        requests[k].kind = "response" /\ requests[k].status >= 500

\* 0.1 s doubled k times, in milliseconds: 100, 200, 400, ...
RECURSIVE Doubled(_)
Doubled(k) == IF k = 0 THEN 100 ELSE 2 * Doubled(k - 1)

\* C1: with retries = r >= 0, when every attempt fails with a transport
\* error, the call never returns a response, never stops before r + 1
\* attempts have been made, never makes more than r + 1, and ends by raising
\* the transport error of the last attempt.
C1_TransportErrorsExhaustRetries ==
    (retries >= 0 /\ EveryAttemptFailedWith("error")) =>
        /\ Len(requests) <= retries + 1
        /\ pc # "returned"
        /\ (Len(requests) = retries + 1 => Ended)
        /\ Ended =>
            /\ Len(requests) = retries + 1
            /\ result = [kind |-> "raise", exc |-> requests[Len(requests)]]
            /\ result.exc.n = retries

\* C1 witness: a client with retries = 3 whose four attempts all failed,
\* with different transport errors, and that has raised.
C1_Witness ==
    /\ retries = 3
    /\ pc = "raised"
    /\ Len(requests) = 4
    /\ EveryAttemptFailedWith("error")
    /\ requests[3].exc # requests[4].exc

\* C2: with retries = r >= 0, when every attempt yields a response with
\* status >= 500, exactly r + 1 attempts are made, the response of the last
\* attempt is returned, and nothing is raised.
C2_ServerErrorsReturnLastResponse ==
    (retries >= 0 /\ EveryAttempt5xx) =>
        /\ Len(requests) <= retries + 1
        /\ pc # "raised"
        /\ (Len(requests) = retries + 1 => Ended)
        /\ Ended =>
            /\ Len(requests) = retries + 1
            /\ result = [kind |-> "return", response |-> requests[Len(requests)]]
            /\ result.response.n = retries
            /\ result.response.status >= 500

\* C2 witness: a client with retries = 2 that got three 5xx responses, the
\* last one different from the one before, and has returned.
C2_Witness ==
    /\ retries = 2
    /\ pc = "returned"
    /\ Len(requests) = 3
    /\ EveryAttempt5xx
    /\ requests[2].status # requests[3].status

\* C3: the i-th sleep follows the failed 0-based attempt i - 1 < retries and
\* lasts 0.1 * 2^(i-1) seconds whichever the kind of failure; every failed
\* attempt k < retries is followed by a sleep, and the final attempt
\* k = retries by none; with the default retries = 3 and every attempt
\* failing, the sleeps are 0.1, 0.2 and 0.4 seconds.
C3_BackoffDelays ==
    /\ \A i \in 1..Len(sleeps) :
        /\ sleeps[i].after = i - 1
        /\ sleeps[i].after < retries
        /\ sleeps[i].ms = Doubled(sleeps[i].after)
        /\ \/ /\ sleeps[i].cause = "error"
              /\ requests[i].kind = "error"
           \/ /\ sleeps[i].cause = "5xx"
              /\ requests[i].kind = "response"
              /\ requests[i].status >= 500
    /\ \A k \in 1..Len(requests) :
        (k - 1 < retries
            /\ (requests[k].kind = "error" \/ requests[k].status >= 500))
        <=> k \in 1..Len(sleeps)
    /\ (retries = DefaultRetries /\ Ended /\ Len(requests) = retries + 1) =>
        /\ Len(sleeps) = 3
        /\ sleeps[1].ms = 100 /\ sleeps[2].ms = 200 /\ sleeps[3].ms = 400

\* C3 witness: the default client after four failed attempts of both kinds:
\* three sleeps were made, after a transport error and after a 5xx response.
C3_Witness ==
    /\ retries = DefaultRetries
    /\ Ended
    /\ Len(requests) = 4
    /\ Len(sleeps) = 3
    /\ \E i, j \in 1..3 : sleeps[i].cause = "error" /\ sleeps[j].cause = "5xx"

\* an attempt that makes the loop go on when it is not the last one: a
\* transport error or a response with status >= 500
Retried(outcome) ==
    \/ outcome.kind = "error"
    \/ outcome.kind = "response" /\ outcome.status >= 500

\* C24: with retries = r >= 0 and whatever the outcomes of the attempts, the
\* call makes at most r + 1 attempts and has ended once it has made r + 1;
\* it returns at the first response with status < 500 without a further
\* attempt; otherwise it ends with the outcome of attempt number r, a
\* response returned or a transport error raised; it never raises the
\* RuntimeError that follows the loop.
C24_RetryLoopTerminates ==
    retries >= 0 =>
        /\ Len(requests) <= retries + 1
        /\ Len(requests) = retries + 1 => Ended
        /\ \A k \in 1..(Len(requests) - 1) : Retried(requests[k])
        /\ pc = "loop" => \A k \in 1..Len(requests) : Retried(requests[k])
        /\ Ended =>
            /\ Len(requests) >= 1
            /\ LET last == requests[Len(requests)] IN
               /\ ~Retried(last) =>
                      result = [kind |-> "return", response |-> last]
               /\ Retried(last) =>
                      /\ Len(requests) = retries + 1
                      /\ last.n = retries
                      /\ last.kind = "response" =>
                             result = [kind |-> "return", response |-> last]
                      /\ last.kind = "error" =>
                             result = [kind |-> "raise", exc |-> last]
        /\ ~(result.kind = "raise" /\ last_exception = NoException)

\* C24 witness: a client with retries = 3 got a transport error, then a 5xx
\* response, then a response below 500, and returned it after three
\* attempts.
C24_Witness ==
    /\ retries = 3
    /\ pc = "returned"
    /\ Len(requests) = 3
    /\ requests[1].kind = "error"
    /\ requests[2].kind = "response" /\ requests[2].status >= 500
    /\ requests[3].kind = "response" /\ requests[3].status < 500

(***************************************************************************)
(* core/base.py, core/security.py and the Admin service's schemas          *)
(***************************************************************************)
\* the most rows the User table holds
MaxUsers == 2

\* the number of requests handled, one per minute
MaxClock == 4

\* settings.ACCESS_TOKEN_EXPIRE_MINUTES
ACCESS_TOKEN_EXPIRE_MINUTES == 30

\* the names rows carry, and the names request bodies carry
Names == {"n1", "n2"}
BodyNames == {"n1"}
Usernames == {"u1", "u2"}
Passwords == {"p1", "p2"}
Descriptions == {"d1"}

\* the microsecond part of datetime.now(): zero or not
Microseconds == {0, 5}

\* datetime.now().strftime("%Y-%m-%d %H:%M:%S") (Base.created_time,
\* Base.updated_time)
Strftime(dt) == [format |-> "YYYY-MM-DD HH:MM:SS", minute |-> dt.minute]

\* str(datetime.now()): isoformat(sep=" "), with the microseconds unless
\* they are zero
Str(dt) ==
    IF dt.us = 0
    THEN [format |-> "YYYY-MM-DD HH:MM:SS", minute |-> dt.minute]
    ELSE [format |-> "YYYY-MM-DD HH:MM:SS.ffffff", minute |-> dt.minute]

\* set_password_hash: the one-way hash of a plaintext, itself a string
set_password_hash(password) ==
    CASE password = "p1" -> "$2b$p1"
      [] password = "p2" -> "$2b$p2"
      [] OTHER -> "$2b$other"

\* the strings set_password_hash produces
IsHash(stored) == \E p \in Passwords : stored = set_password_hash(p)

\* verify_password: whether the stored hash is that of the plaintext
verify_password(plain_password, hashed_password) ==
    hashed_password = set_password_hash(plain_password)

\* what verify_password does with a stored string that is no hash: it
\* answers False, or raises
VerifyOutcomes(plain_password, stored) ==
    IF IsHash(stored)
    THEN {IF verify_password(plain_password, stored) THEN "True" ELSE "False"}
    ELSE {"False", "raises"}

\* the fields of the User entity
UserFields == {"id", "created_time", "updated_time", "name", "username",
               "password", "status", "description", "is_superuser"}

\* UserInSchema: name, username and password, and the optional status and
\* description
RequiredInFields == {"name", "username", "password"}
OptionalInFields == {"status", "description"}

\* UserOutSchema: every field of the entity but the password
UserOutFields == UserFields \ {"password"}

\* the fields UserInSchema defaults when the body does not set them
InDefault(f) == IF f = "status" THEN TRUE ELSE None

\* a validated UserInSchema instance: a value for every field, the schema's
\* default where the client has set none, and the set of fields the client
\* has set (model_fields_set)
BodiesSetting(opt) ==
    { [name |-> n, username |-> u, password |-> p, status |-> st,
       description |-> d, fields_set |-> RequiredInFields \cup opt] :
      n \in BodyNames, u \in Usernames, p \in Passwords,
      st \in IF "status" \in opt THEN BOOLEAN ELSE {InDefault("status")},
      d \in IF "description" \in opt THEN Descriptions
                                     ELSE {InDefault("description")} }

ValidBodies == UNION { BodiesSetting(opt) : opt \in SUBSET OptionalInFields }

\* data.model_dump(exclude_unset=True)
DumpExcludeUnset(data) == [f \in data.fields_set |-> data[f]]

\* UserOutSchema.model_validate(obj).model_dump()
UserOut(obj) == [f \in UserOutFields |-> obj[f]]

\* SuccessResponse(data)
SuccessResponse(shape, data) ==
    [kind |-> "Success", status_code |-> 200, shape |-> shape, data |-> data]

\* ErrorResponse(message, status_code=400)
ErrorResponse(message) ==
    [kind |-> "Error", status_code |-> 400, shape |-> "none", message |-> message]

\* ExceptResponse(message)
ExceptResponse(message) ==
    [kind |-> "Except", status_code |-> 500, shape |-> "none", message |-> message]

\* the ids of the rows select(User).where(User.username == username) yields
ByUsername(username) == { i \in DOMAIN table : table[i].username = username }

\* the id the database gives a new row: SQLite's INTEGER PRIMARY KEY takes
\* one more than the largest id in the table
Max(S) == CHOOSE m \in S : \A x \in S : x <= m
NewId == IF DOMAIN table = {} THEN 1 ELSE Max(DOMAIN table) + 1

\* decode_access_token(token): the payload when the token was signed by
\* create_access_token and has not expired
Decodes(token) == token \in issued /\ token.exp > clock

\* get_current_user: the bearer token decodes and the user it names exists
\* and is enabled
Authenticated(token) ==
    /\ Decodes(token)
    /\ \E i \in ByUsername(token.sub) : table[i].status

\* the requests the authentication dependency lets through
SomeoneAuthenticated == \E token \in issued : Authenticated(token)

\* the rows a deployment starts with: a superuser, and possibly an ordinary
\* user, enabled or not
SeedTime == [format |-> "YYYY-MM-DD HH:MM:SS", minute |-> 0]

SeedAdmin ==
    [id |-> 1, created_time |-> SeedTime, updated_time |-> SeedTime,
     name |-> "n1", username |-> "u1", password |-> set_password_hash("p1"),
     status |-> TRUE, description |-> None, is_superuser |-> TRUE]

SeedUser(status) ==
    [id |-> 2, created_time |-> SeedTime, updated_time |-> SeedTime,
     name |-> "n2", username |-> "u2", password |-> set_password_hash("p2"),
     status |-> status, description |-> None, is_superuser |-> FALSE]

SeedTables ==
    { (1 :> SeedAdmin) } \cup
    { (1 :> SeedAdmin) @@ (2 :> SeedUser(st)) : st \in BOOLEAN }

InitUser ==
    /\ table \in SeedTables
    /\ clock = 1
    /\ issued = {}
    /\ req = NoRequest
    /\ resp = NoResponse
    /\ retries = DefaultRetries
    /\ pc = "loop"
    /\ attempt = 0
    /\ last_exception = NoException
    /\ requests = <<>>
    /\ sleeps = <<>>
    /\ result = NoResult
    /\ IdleLife
    /\ IdleClient
    /\ IdleRace
    /\ IdleTrace
    /\ IdleRequest
    /\ IdleErrors

(***************************************************************************)
(* services/admin/app/api/user.py                                          *)
(***************************************************************************)
\* POST /login without the status check
loginIgnoringStatus(username, password, docs) ==
    /\ clock < MaxClock
    /\ clock' = clock + 1
    /\ req' = [op |-> "login", username |-> username, password |-> password]
    /\ IF ByUsername(username) = {}
       THEN /\ resp' = ErrorResponse("user does not exist")
            /\ UNCHANGED issued
       ELSE \E i \in ByUsername(username) :
            LET existing_obj == table[i] IN
            IF ~verify_password(password, existing_obj.password)
            THEN /\ resp' = ErrorResponse("wrong password")
                 /\ UNCHANGED issued
            ELSE LET access_token ==
                         [sub |-> existing_obj.username,
                          exp |-> clock + ACCESS_TOKEN_EXPIRE_MINUTES]
                     login_token ==
                         [access_token |-> access_token,
                          token_type |-> "bearer",
                          expires_in |-> ACCESS_TOKEN_EXPIRE_MINUTES * 60]
                 IN /\ issued' = issued \cup {access_token}
                    /\ resp' = IF docs
                               THEN [kind |-> "Raw", status_code |-> 200,
                                     shape |-> "token", data |-> login_token]
                               ELSE SuccessResponse("token", login_token)
    /\ UNCHANGED table
    /\ UNCHANGED exceptUser

\* POST /login
login(username, password, docs) ==
    /\ clock < MaxClock
    /\ clock' = clock + 1
    /\ req' = [op |-> "login", username |-> username, password |-> password]
    /\ IF ByUsername(username) = {}
       THEN /\ resp' = ErrorResponse("user does not exist")
            /\ UNCHANGED issued
       ELSE \E i \in ByUsername(username) :
            LET existing_obj == table[i] IN
            IF ~existing_obj.status
            THEN /\ resp' = ErrorResponse("user disabled")
                 /\ UNCHANGED issued
            ELSE \E verified \in VerifyOutcomes(password, existing_obj.password) :
            IF verified = "raises"
            THEN /\ resp' = ExceptResponse("system exception")
                 /\ UNCHANGED issued
            ELSE IF verified = "False"
            THEN /\ resp' = ErrorResponse("wrong password")
                 /\ UNCHANGED issued
            ELSE LET access_token ==
                         [sub |-> existing_obj.username,
                          exp |-> clock + ACCESS_TOKEN_EXPIRE_MINUTES]
                     login_token ==
                         [access_token |-> access_token,
                          token_type |-> "bearer",
                          expires_in |-> ACCESS_TOKEN_EXPIRE_MINUTES * 60]
                 IN /\ issued' = issued \cup {access_token}
                    /\ resp' = IF docs
                               THEN [kind |-> "Raw", status_code |-> 200,
                                     shape |-> "token", data |-> login_token]
                               ELSE SuccessResponse("token", login_token)
    /\ UNCHANGED table
    /\ UNCHANGED exceptUser

\* POST /user without the search for the username
createUnchecked(data) ==
    /\ SomeoneAuthenticated
    /\ clock < MaxClock
    /\ clock' = clock + 1
    /\ req' = [op |-> "create", body |-> data]
    /\ NewId <= MaxUsers
    /\ \E us \in Microseconds :
       LET now == [minute |-> clock, us |-> us]
           obj_db ==
               [id |-> NewId,
                created_time |-> Strftime(now),
                updated_time |-> Strftime(now),
                name |-> data.name,
                username |-> data.username,
                password |-> set_password_hash(data.password),
                status |-> data.status,
                description |-> data.description,
                is_superuser |-> FALSE]
       IN /\ table' = table @@ (NewId :> obj_db)
          /\ resp' = SuccessResponse("user", UserOut(obj_db))
    /\ UNCHANGED issued
    /\ UNCHANGED exceptUser

\* POST /user
create(data) ==
    /\ SomeoneAuthenticated
    /\ clock < MaxClock
    /\ clock' = clock + 1
    /\ req' = [op |-> "create", body |-> data]
    /\ IF ByUsername(data.username) # {}
       THEN /\ resp' = ErrorResponse("username already exists")
            /\ UNCHANGED table
       ELSE /\ NewId <= MaxUsers
            /\ \E us \in Microseconds :
               LET now == [minute |-> clock, us |-> us]
                   obj_db ==
                       [id |-> NewId,
                        created_time |-> Strftime(now),
                        updated_time |-> Strftime(now),
                        name |-> data.name,
                        username |-> data.username,
                        password |-> set_password_hash(data.password),
                        status |-> data.status,
                        description |-> data.description,
                        is_superuser |-> FALSE]
               IN /\ table' = table @@ (NewId :> obj_db)
                  /\ resp' = SuccessResponse("user", UserOut(obj_db))
    /\ UNCHANGED issued
    /\ UNCHANGED exceptUser

\* PATCH /user/{id} answering with the row itself
detailRawRow(id) ==
    /\ SomeoneAuthenticated
    /\ clock < MaxClock
    /\ clock' = clock + 1
    /\ req' = [op |-> "detail", id |-> id]
    /\ resp' = IF id \notin DOMAIN table
               THEN ErrorResponse("user does not exist")
               ELSE SuccessResponse("user", table[id])
    /\ UNCHANGED <<table, issued>>
    /\ UNCHANGED exceptUser

\* PATCH /user/{id}
detail(id) ==
    /\ SomeoneAuthenticated
    /\ clock < MaxClock
    /\ clock' = clock + 1
    /\ req' = [op |-> "detail", id |-> id]
    /\ resp' = IF id \notin DOMAIN table
               THEN ErrorResponse("user does not exist")
               ELSE SuccessResponse("user", UserOut(table[id]))
    /\ UNCHANGED <<table, issued>>
    /\ UNCHANGED exceptUser

\* existing_obj.sqlmodel_update(update_data_dict): every key of the dict is
\* assigned to the object
sqlmodel_updateAllFields(existing_obj, data) ==
    [f \in UserFields |->
        IF f \in RequiredInFields \cup OptionalInFields
        THEN data[f] ELSE existing_obj[f]]

sqlmodel_update(existing_obj, data) ==
    LET update_data_dict == DumpExcludeUnset(data) IN
    [f \in UserFields |->
        IF f \in DOMAIN update_data_dict
        THEN update_data_dict[f] ELSE existing_obj[f]]

\* PUT /user/{id} without the superuser check
updateAnyone(id, data) ==
    /\ SomeoneAuthenticated
    /\ clock < MaxClock
    /\ clock' = clock + 1
    /\ req' = [op |-> "update", id |-> id, body |-> data]
    /\ IF id \notin DOMAIN table
       THEN /\ resp' = ErrorResponse("user does not exist")
            /\ UNCHANGED table
       ELSE \E us \in Microseconds :
            LET now == [minute |-> clock, us |-> us]
                existing_obj ==
                    [sqlmodel_update(table[id], data)
                        EXCEPT !.updated_time = Str(now)]
            IN /\ table' = [table EXCEPT ![id] = existing_obj]
               /\ resp' = SuccessResponse("user", UserOut(existing_obj))
    /\ UNCHANGED issued
    /\ UNCHANGED exceptUser

\* PUT /user/{id}
update(id, data) ==
    /\ SomeoneAuthenticated
    /\ clock < MaxClock
    /\ clock' = clock + 1
    /\ req' = [op |-> "update", id |-> id, body |-> data]
    /\ IF id \notin DOMAIN table
       THEN /\ resp' = ErrorResponse("user does not exist")
            /\ UNCHANGED table
       ELSE IF table[id].is_superuser
       THEN /\ resp' = ErrorResponse("superuser cannot be modified")
            /\ UNCHANGED table
       ELSE \E us \in Microseconds :
            LET now == [minute |-> clock, us |-> us]
                existing_obj ==
                    [sqlmodel_update(table[id], data)
                        EXCEPT !.updated_time = Str(now)]
            IN /\ table' = [table EXCEPT ![id] = existing_obj]
               /\ resp' = SuccessResponse("user", UserOut(existing_obj))
    /\ UNCHANGED issued
    /\ UNCHANGED exceptUser

\* DELETE /user/{id}
delete(id) ==
    /\ SomeoneAuthenticated
    /\ clock < MaxClock
    /\ clock' = clock + 1
    /\ req' = [op |-> "delete", id |-> id]
    /\ IF id \notin DOMAIN table
       THEN /\ resp' = ErrorResponse("user does not exist")
            /\ UNCHANGED table
       ELSE IF table[id].is_superuser
       THEN /\ resp' = ErrorResponse("superuser cannot be deleted")
            /\ UNCHANGED table
       ELSE LET existing_obj == table[id] IN
            /\ table' = [i \in DOMAIN table \ {id} |-> table[i]]
            /\ resp' = SuccessResponse("user", UserOut(existing_obj))
    /\ UNCHANGED issued
    /\ UNCHANGED exceptUser

\* the ids of S in ascending order: order_by(asc(User.id))
RECURSIVE Ascending(_)
Ascending(S) ==
    IF S = {} THEN <<>>
    ELSE LET m == CHOOSE x \in S : \A y \in S : x <= y
         IN <<m>> \o Ascending(S \ {m})

\* paginate(db, sql, params) on a route declared with
\* response_model=Page[UserOutSchema]: the page of the rows the query
\* selects, its items validated into the page's item schema
paginate(ids, page, size) ==
    LET all == Ascending(ids)
        first == (page - 1) * size + 1
        last == IF page * size < Len(all) THEN page * size ELSE Len(all)
        slice == SubSeq(all, first, last)
    IN [items |-> [k \in 1..Len(slice) |-> UserOut(table[slice[k]])],
        total |-> Len(all), page |-> page, size |-> size]

\* GET /users
list(name, page, size) ==
    /\ SomeoneAuthenticated
    /\ clock < MaxClock
    /\ clock' = clock + 1
    /\ req' = [op |-> "list", name |-> name, page |-> page, size |-> size]
    /\ LET sql == IF name # None
                  THEN { i \in DOMAIN table : table[i].name = name }
                  ELSE DOMAIN table
       IN resp' = SuccessResponse("page", paginate(sql, page, size))
    /\ UNCHANGED <<table, issued>>
    /\ UNCHANGED exceptUser

\* a token no create_access_token call has signed
ForgedToken == [sub |-> "u1", exp |-> 0]

\* POST /logout that takes the token out of circulation
logoutRevokes(token) ==
    /\ SomeoneAuthenticated
    /\ clock < MaxClock
    /\ clock' = clock + 1
    /\ IF ~Decodes(token)
       THEN resp' = ExceptResponse("system exception")
       ELSE IF ByUsername(token.sub) = {}
       THEN resp' = ErrorResponse("user does not exist")
       ELSE \E i \in ByUsername(token.sub) :
            resp' = IF ~table[i].status
                    THEN ErrorResponse("user disabled")
                    ELSE SuccessResponse("bool", TRUE)
    /\ req' = [op |-> "logout", token |-> token,
               scope_user_id |-> IF resp'.kind = "Success"
                                 THEN None ELSE "as before"]
    /\ issued' = IF resp'.kind = "Success" THEN issued \ {token} ELSE issued
    /\ UNCHANGED table
    /\ UNCHANGED exceptUser

\* POST /logout; request.scope["user_id"] = None is kept in the request as
\* scope_user_id
logout(token) ==
    /\ SomeoneAuthenticated
    /\ clock < MaxClock
    /\ clock' = clock + 1
    /\ IF ~Decodes(token)
       THEN resp' = ExceptResponse("system exception")
       ELSE IF ByUsername(token.sub) = {}
       THEN resp' = ErrorResponse("user does not exist")
       ELSE \E i \in ByUsername(token.sub) :
            resp' = IF ~table[i].status
                    THEN ErrorResponse("user disabled")
                    ELSE SuccessResponse("bool", TRUE)
    /\ req' = [op |-> "logout", token |-> token,
               scope_user_id |-> IF resp'.kind = "Success"
                                 THEN None ELSE "as before"]
    /\ UNCHANGED <<table, issued>>
    /\ UNCHANGED exceptUser

\* the endpoints behind Depends(get_current_user)
ProtectedOps == {"logout", "list", "create", "detail", "update", "delete"}

\* a request to a protected endpoint that get_current_user refuses: the
\* AuthenticationError it raises is rendered by app_exception_handler
unauthenticated(op) ==
    /\ clock < MaxClock
    /\ clock' = clock + 1
    /\ req' = [op |-> op, refused |-> TRUE]
    /\ resp' = [kind |-> "Error", status_code |-> 401, shape |-> "none",
                message |-> "authentication failed"]
    /\ UNCHANGED <<table, issued>>
    /\ UNCHANGED exceptUser

\* the ids a request names
Ids == 1..MaxUsers
PageNumbers == {1, 2}
PageSizes == {1, 50}

NextUser ==
    \/ \E u \in Usernames, p \in Passwords, docs \in BOOLEAN : login(u, p, docs)
    \/ \E token \in issued \cup {ForgedToken} : logout(token)
    \/ \E name \in Names \cup {None}, page \in PageNumbers, size \in PageSizes :
          list(name, page, size)
    \/ \E data \in ValidBodies : create(data)
    \/ \E id \in Ids : detail(id)
    \/ \E id \in Ids, data \in ValidBodies : update(id, data)
    \/ \E id \in Ids : delete(id)
    \/ \E op \in ProtectedOps : unauthenticated(op)

SpecUser == InitUser /\ [][NextUser]_vars

(***************************************************************************)
(* Claims about the user-management API (checked under SpecUser)           *)
(***************************************************************************)
\* C4: every stored User.password is a hash produced by set_password_hash;
\* the plaintext password of a request body is never the stored password.
C4_StoredPasswordsAreHashes ==
    \A i \in DOMAIN table : IsHash(table[i].password)

\* C5: a step never changes or removes a superuser's row, and PUT or DELETE
\* /user/{id} on a superuser answers with an Error envelope and leaves the
\* whole table as it was.
C5_SuperusersImmutable ==
    [][ /\ \A i \in DOMAIN table :
            table[i].is_superuser =>
                (i \in DOMAIN table' /\ table'[i] = table[i])
        /\ ( /\ req'.op \in {"update", "delete"}
             /\ "id" \in DOMAIN req'
             /\ req'.id \in DOMAIN table
             /\ table[req'.id].is_superuser )
           => (resp'.kind = "Error" /\ table' = table)
      ]_vars

\* C5 witness: a PUT on the superuser, with a body that names another
\* username, was refused.
C5_Witness ==
    /\ req.op = "update"
    /\ "id" \in DOMAIN req
    /\ req.id \in DOMAIN table
    /\ table[req.id].is_superuser
    /\ req.body.username # table[req.id].username
    /\ resp.kind = "Error"
    /\ resp.message = "superuser cannot be modified"

\* C6: POST /user with the username of an existing user answers with an
\* Error envelope and leaves the table unchanged.
C6_DuplicateUsernameRejected ==
    [][ ( /\ req'.op = "create"
          /\ "body" \in DOMAIN req'
          /\ \E i \in DOMAIN table : table[i].username = req'.body.username )
        => (resp'.kind = "Error" /\ table' = table)
      ]_vars

\* C6 witness: an authenticated POST /user named a username in the table and
\* got the Error envelope.
C6_Witness ==
    /\ req.op = "create"
    /\ "body" \in DOMAIN req
    /\ \E i \in DOMAIN table : table[i].username = req.body.username
    /\ resp.kind = "Error"
    /\ resp.message = "username already exists"

\* C7: no two rows of the User table have the same username.
C7_UsernamesUnique ==
    \A i, j \in DOMAIN table :
        i # j => table[i].username # table[j].username

\* the rows POST /login with this form may be granted a token for
Grantable(form) ==
    { i \in DOMAIN table :
        /\ table[i].username = form.username
        /\ table[i].status
        /\ verify_password(form.password, table[i].password) }

\* C8: a token is created only by POST /login and only when a user with the
\* given username exists, is enabled and verify_password succeeds; a login
\* with a username of no user, or of disabled users only, answers with an
\* Error envelope and creates no token.
C8_TokenOnlyForEnabledVerifiedUser ==
    [][ /\ (issued' # issued \/ resp'.shape = "token")
           => (req'.op = "login" /\ Grantable(req') # {})
        /\ ( /\ req'.op = "login"
             /\ \A i \in DOMAIN table :
                   table[i].username = req'.username => ~table[i].status )
           => (resp'.kind = "Error" /\ issued' = issued)
      ]_vars

\* C8 witness: after a token was issued to someone, a login of a disabled
\* user with the correct password was refused.
C8_Witness ==
    /\ issued # {}
    /\ req.op = "login"
    /\ \E i \in DOMAIN table :
        /\ table[i].username = req.username
        /\ ~table[i].status
        /\ verify_password(req.password, table[i].password)
    /\ resp.kind = "Error"

\* the response carries a password field
CarriesPassword(r) ==
    CASE r.shape = "user" -> "password" \in DOMAIN r.data
      [] r.shape = "page" ->
            \E k \in DOMAIN r.data.items : "password" \in DOMAIN r.data.items[k]
      [] r.shape = "token" -> "password" \in DOMAIN r.data
      [] OTHER -> FALSE

C10_UpdateFrame ==
    [][ (req'.op = "update" /\ resp'.kind = "Success") =>
        LET id == req'.id
            body == req'.body
        IN /\ id \in DOMAIN table
           /\ ~table[id].is_superuser
           /\ DOMAIN table' = DOMAIN table
           /\ \A j \in DOMAIN table \ {id} : table'[j] = table[j]
           /\ \A f \in body.fields_set : table'[id][f] = body[f]
           /\ \A f \in UserFields \ (body.fields_set \cup {"updated_time"}) :
                 table'[id][f] = table[id][f]
           /\ table'[id].updated_time.minute = clock
      ]_vars

\* C10 witness: a successful PUT that set neither status nor description on
\* a disabled user: the row is still disabled, its name is the body's and
\* its updated_time is newer than its created_time.
C10_Witness ==
    /\ req.op = "update"
    /\ resp.kind = "Success"
    /\ req.body.fields_set = RequiredInFields
    /\ ~table[req.id].status
    /\ table[req.id].name = req.body.name
    /\ table[req.id].updated_time.minute > table[req.id].created_time.minute

\* C11: the created_time and the updated_time of every row are in the
\* format YYYY-MM-DD HH:MM:SS.
C11_TimestampFormat ==
    \A i \in DOMAIN table :
        /\ table[i].created_time.format = "YYYY-MM-DD HH:MM:SS"
        /\ table[i].updated_time.format = "YYYY-MM-DD HH:MM:SS"

(***************************************************************************)
(* core/startup.py and services/admin/main.py: the lifespans               *)
(*                                                                         *)
(* SpecLife  an application managed by a UnifiedStartupManager is          *)
(*           configured, started and shut down, and next to it the Admin   *)
(*           service runs its own lifespan; the outcome of every callback  *)
(*           and of every registry call is chosen by the environment.      *)
(***************************************************************************)
\* the most callbacks registered on one list
MaxCallbacks == 2

\* how an application is given a lifespan L before the manager sees it:
\* not at all, as FastAPI(lifespan=L), or by setting an attribute
\* app.lifespan = L by hand
Configurations == {"none", "constructor", "attribute"}

\* what a call of a discovery client does: it returns True or False, or the
\* call raises
RegistryOutcomes == {"True", "False", "raises"}

\* FastAPI.__init__ hands lifespan= to the router, which keeps it as
\* router.lifespan_context; the application object itself gets no attribute
\* named lifespan
RouterLifespan(how) == IF how = "constructor" THEN "L" ELSE "default"

\* getattr(self.app, "lifespan", None)
AppLifespanAttribute == IF configured = "attribute" THEN "L" ELSE None

\* an entry of the events history
Event(ev, n, raised) == [ev |-> ev, n |-> n, raised |-> raised]

Did(ev) == Event(ev, 0, FALSE)

\* callback number n of a list, which raises an Exception when called or
\* returns
Callback(n, raises) == [n |-> n, raises |-> raises]

\* a call a discovery client received
RegistryCall(op, service, outcome) ==
    [op |-> op, service |-> service, outcome |-> outcome]

\* UnifiedStartupManager.__init__ on an application, and the Admin service
\* about to start
InitLife ==
    /\ configured \in Configurations
    /\ lifespan_context = RouterLifespan(configured)
    /\ original_lifespan = None
    /\ startup_callbacks = <<>>
    /\ shutdown_callbacks = <<>>
    /\ service_id = None
    /\ mpc = "config"
    /\ cb = 0
    /\ events = <<>>
    /\ yielded = "nothing"
    /\ register_result = "not called"
    /\ deregister_result = "not called"
    /\ registry_calls = <<>>
    /\ apc = "start"
    /\ admin_events = <<>>
    /\ IdleHttp
    /\ IdleUser
    /\ IdleClient
    /\ IdleRace
    /\ IdleTrace
    /\ IdleRequest
    /\ IdleErrors

adminVars == <<apc, admin_events>>

add_startup_callback(raises) ==
    /\ mpc = "config"
    /\ Len(startup_callbacks) < MaxCallbacks
    /\ startup_callbacks' =
           Append(startup_callbacks, Callback(Len(startup_callbacks) + 1, raises))
    /\ UNCHANGED <<configured, lifespan_context, original_lifespan,
                   shutdown_callbacks, service_id, mpc, cb, events, yielded,
                   register_result, deregister_result, registry_calls>>
    /\ UNCHANGED adminVars
    /\ UNCHANGED exceptLife

add_shutdown_callback(raises) ==
    /\ mpc = "config"
    /\ Len(shutdown_callbacks) < MaxCallbacks
    /\ shutdown_callbacks' =
           Append(shutdown_callbacks, Callback(Len(shutdown_callbacks) + 1, raises))
    /\ UNCHANGED <<configured, lifespan_context, original_lifespan,
                   startup_callbacks, service_id, mpc, cb, events, yielded,
                   register_result, deregister_result, registry_calls>>
    /\ UNCHANGED adminVars
    /\ UNCHANGED exceptLife

\* code outside the manager assigns manager.service_id; the class itself
\* only ever sets it to None, in __init__
service_idAssigned ==
    /\ mpc = "config"
    /\ service_id = None
    /\ service_id' = "managed-1"
    /\ UNCHANGED <<configured, lifespan_context, original_lifespan,
                   startup_callbacks, shutdown_callbacks, mpc, cb, events,
                   yielded, register_result, deregister_result,
                   registry_calls>>
    /\ UNCHANGED <<apc, admin_events>>
    /\ UNCHANGED exceptLife

\* self.register_service(...) without its try / except
register_serviceUncaught(outcome) ==
    /\ mpc \in {"config", "serving"}
    /\ register_result = "not called"
    /\ registry_calls' =
           Append(registry_calls, RegistryCall("register", "managed", outcome))
    /\ register_result' = IF outcome = "raises" THEN "raised"
                          ELSE IF outcome = "True" THEN "True" ELSE "False"
    /\ UNCHANGED <<configured, lifespan_context, original_lifespan,
                   startup_callbacks, shutdown_callbacks, service_id, mpc, cb,
                   events, yielded, deregister_result>>
    /\ UNCHANGED <<apc, admin_events>>
    /\ UNCHANGED exceptLife

\* self.register_service(...): the discovery client's register_service
\* answers with outcome; self.service_id is not assigned
register_service(outcome) ==
    /\ mpc \in {"config", "serving"}
    /\ register_result = "not called"
    /\ deregister_result = "not called"
    /\ registry_calls' =
           Append(registry_calls, RegistryCall("register", "managed", outcome))
    /\ register_result' = IF outcome = "True" THEN "True" ELSE "False"
    /\ UNCHANGED <<configured, lifespan_context, original_lifespan,
                   startup_callbacks, shutdown_callbacks, service_id, mpc, cb,
                   events, yielded, deregister_result>>
    /\ UNCHANGED adminVars
    /\ UNCHANGED exceptLife

\* setup_lifecycle_events(): keeps what getattr found and replaces the
\* router's lifespan_context
setup_lifecycle_events ==
    /\ mpc = "config"
    /\ original_lifespan' = AppLifespanAttribute
    /\ lifespan_context' = "installed"
    /\ mpc' = "installed"
    /\ UNCHANGED <<configured, startup_callbacks, shutdown_callbacks,
                   service_id, cb, events, yielded, register_result,
                   deregister_result, registry_calls>>
    /\ UNCHANGED adminVars
    /\ UNCHANGED exceptLife

\* the server enters app.router.lifespan_context: the installed lifespan
\* logs and calls initialize_components
lifespanSkipsInitialize ==
    /\ mpc = "installed"
    /\ events' = Append(events, Did("starting"))
    /\ mpc' = "initialize"
    /\ cb' = Len(startup_callbacks) + 1
    /\ UNCHANGED <<configured, lifespan_context, original_lifespan,
                   startup_callbacks, shutdown_callbacks, service_id, yielded,
                   register_result, deregister_result, registry_calls>>
    /\ UNCHANGED adminVars
    /\ UNCHANGED exceptLife

lifespanStarts ==
    /\ mpc = "installed"
    /\ events' = Append(events, Did("starting"))
    /\ mpc' = "initialize"
    /\ cb' = 1
    /\ UNCHANGED <<configured, lifespan_context, original_lifespan,
                   startup_callbacks, shutdown_callbacks, service_id, yielded,
                   register_result, deregister_result, registry_calls>>
    /\ UNCHANGED adminVars
    /\ UNCHANGED exceptLife

\* one iteration of the loop of initialize_components: the callback is
\* called inside try / except Exception
initialize_componentsUncaught ==
    /\ mpc = "initialize"
    /\ cb <= Len(startup_callbacks)
    /\ events' = Append(events, Event("startup_callback",
                                      startup_callbacks[cb].n,
                                      startup_callbacks[cb].raises))
    /\ IF startup_callbacks[cb].raises
       THEN mpc' = "failed" /\ cb' = cb
       ELSE mpc' = mpc /\ cb' = cb + 1
    /\ UNCHANGED <<configured, lifespan_context, original_lifespan,
                   startup_callbacks, shutdown_callbacks, service_id,
                   yielded, register_result, deregister_result, registry_calls>>
    /\ UNCHANGED adminVars
    /\ UNCHANGED exceptLife

initialize_components ==
    /\ mpc = "initialize"
    /\ cb <= Len(startup_callbacks)
    /\ events' = Append(events, Event("startup_callback",
                                      startup_callbacks[cb].n,
                                      startup_callbacks[cb].raises))
    /\ cb' = cb + 1
    /\ UNCHANGED <<configured, lifespan_context, original_lifespan,
                   startup_callbacks, shutdown_callbacks, service_id, mpc,
                   yielded, register_result, deregister_result, registry_calls>>
    /\ UNCHANGED adminVars
    /\ UNCHANGED exceptLife

\* initialize_components has returned: the lifespan logs, enters the
\* original lifespan if it kept one, and yields
lifespanYields ==
    /\ mpc = "initialize"
    /\ cb > Len(startup_callbacks)
    /\ IF original_lifespan # None
       THEN /\ events' = events \o <<Did("started"), Did("L entered"),
                                     Did("yield")>>
            /\ yielded' = "state of L"
       ELSE /\ events' = events \o <<Did("started"), Did("yield")>>
            /\ yielded' = "{}"
    /\ mpc' = "serving"
    /\ UNCHANGED <<configured, lifespan_context, original_lifespan,
                   startup_callbacks, shutdown_callbacks, service_id, cb,
                   register_result, deregister_result, registry_calls>>
    /\ UNCHANGED adminVars
    /\ UNCHANGED exceptLife

\* the server shuts down: the lifespan resumes after its yield, leaves the
\* original lifespan if it entered one, logs and calls cleanup_components
lifespanResumes ==
    /\ mpc = "serving"
    /\ events' = IF original_lifespan # None
                 THEN events \o <<Did("L exited"), Did("stopping")>>
                 ELSE Append(events, Did("stopping"))
    /\ mpc' = "cleanup"
    /\ cb' = 1
    /\ UNCHANGED <<configured, lifespan_context, original_lifespan,
                   startup_callbacks, shutdown_callbacks, service_id, yielded,
                   register_result, deregister_result, registry_calls>>
    /\ UNCHANGED adminVars
    /\ UNCHANGED exceptLife

\* one iteration of the loop of cleanup_components
cleanup_components ==
    /\ mpc = "cleanup"
    /\ cb <= Len(shutdown_callbacks)
    /\ events' = Append(events, Event("shutdown_callback",
                                      shutdown_callbacks[cb].n,
                                      shutdown_callbacks[cb].raises))
    /\ cb' = cb + 1
    /\ UNCHANGED <<configured, lifespan_context, original_lifespan,
                   startup_callbacks, shutdown_callbacks, service_id, mpc,
                   yielded, register_result, deregister_result, registry_calls>>
    /\ UNCHANGED adminVars
    /\ UNCHANGED exceptLife

\* the end of cleanup_components: await close_service_discovery()
close_service_discovery ==
    /\ mpc = "cleanup"
    /\ cb > Len(shutdown_callbacks)
    /\ events' = Append(events, Did("close_service_discovery"))
    /\ mpc' = "close http"
    /\ UNCHANGED <<configured, lifespan_context, original_lifespan,
                   startup_callbacks, shutdown_callbacks, service_id, cb,
                   yielded, register_result, deregister_result, registry_calls>>
    /\ UNCHANGED adminVars
    /\ UNCHANGED exceptLife

\* the end of cleanup_components: await close_http_client()
cleanupClosesHttpClient ==
    /\ mpc = "close http"
    /\ events' = Append(events, Did("close_http_client"))
    /\ mpc' = "deregister"
    /\ UNCHANGED <<configured, lifespan_context, original_lifespan,
                   startup_callbacks, shutdown_callbacks, service_id, cb,
                   yielded, register_result, deregister_result, registry_calls>>
    /\ UNCHANGED adminVars
    /\ UNCHANGED exceptLife

\* result = await self.deregister_service(), and the last log lines: with
\* no service id it returns True at once, with one the discovery client's
\* deregister_service answers with outcome
deregister_service(outcome) ==
    /\ mpc = "deregister"
    /\ IF service_id = None
       THEN /\ UNCHANGED registry_calls
            /\ deregister_result' = "True"
       ELSE /\ registry_calls' =
                   Append(registry_calls,
                          RegistryCall("deregister", "managed", outcome))
            /\ deregister_result' = IF outcome = "True" THEN "True" ELSE "False"
    /\ events' = events \o <<Did("deregister_service"), Did("stopped")>>
    /\ mpc' = "stopped"
    /\ UNCHANGED <<configured, lifespan_context, original_lifespan,
                   startup_callbacks, shutdown_callbacks, service_id, cb,
                   yielded, register_result>>
    /\ UNCHANGED adminVars
    /\ UNCHANGED exceptLife

mgrVars == <<configured, lifespan_context, original_lifespan,
             startup_callbacks, shutdown_callbacks, service_id, mpc, cb,
             events, yielded, register_result, deregister_result>>

\* services/admin/main.py lifespan, up to the end of create_db_and_tables:
\* create_all succeeds, or it raises and create_db_and_tables logs the error
\* and raises again
create_db_and_tablesSwallowed(ok) ==
    /\ apc = "start"
    /\ admin_events' =
           IF ok THEN Append(admin_events, "tables created")
           ELSE admin_events \o <<"create_db_and_tables raised">>
    /\ apc' = "register"
    /\ UNCHANGED mgrVars
    /\ UNCHANGED registry_calls
    /\ UNCHANGED exceptLife

create_db_and_tables(ok) ==
    /\ apc = "start"
    /\ IF ok
       THEN /\ admin_events' = Append(admin_events, "tables created")
            /\ apc' = "register"
       ELSE /\ admin_events' = admin_events \o
                    <<"create_db_and_tables raised", "startup failure logged",
                      "closing logged">>
            /\ apc' = "failed"
    /\ UNCHANGED mgrVars
    /\ UNCHANGED registry_calls
    /\ UNCHANGED exceptLife

\* services/admin/main.py lifespan, from the service id to the yield: the
\* value service_discovery.register_service returns is not looked at
lifespanRegisters(outcome) ==
    /\ apc = "register"
    /\ registry_calls' =
           Append(registry_calls, RegistryCall("register", "admin", outcome))
    /\ IF outcome = "raises"
       THEN /\ admin_events' = admin_events \o
                    <<"startup failure logged", "closing logged">>
            /\ apc' = "failed"
       ELSE /\ admin_events' = admin_events \o
                    <<"registration success logged", "yield">>
            /\ apc' = "serving"
    /\ UNCHANGED mgrVars
    /\ UNCHANGED exceptLife

\* services/admin/main.py lifespan after its yield: the finally block
lifespanExits ==
    /\ apc = "serving"
    /\ admin_events' = Append(admin_events, "closing logged")
    /\ apc' = "exited"
    /\ UNCHANGED mgrVars
    /\ UNCHANGED registry_calls
    /\ UNCHANGED exceptLife

NextLife ==
    \/ \E raises \in BOOLEAN : add_startup_callback(raises)
    \/ \E raises \in BOOLEAN : add_shutdown_callback(raises)
    \/ service_idAssigned
    \/ \E outcome \in RegistryOutcomes : register_service(outcome)
    \/ setup_lifecycle_events
    \/ lifespanStarts
    \/ initialize_components
    \/ lifespanYields
    \/ lifespanResumes
    \/ cleanup_components
    \/ close_service_discovery
    \/ cleanupClosesHttpClient
    \/ \E outcome \in RegistryOutcomes : deregister_service(outcome)
    \/ \E ok \in BOOLEAN : create_db_and_tables(ok)
    \/ \E outcome \in RegistryOutcomes : lifespanRegisters(outcome)
    \/ lifespanExits

SpecLife == InitLife /\ [][NextLife]_vars

(***************************************************************************)
(* Claims about the lifespans                                              *)
(***************************************************************************)
\* the positions of the events named ev in the history
At(ev) == {i \in 1..Len(events) : events[i].ev = ev}

Happened(ev) == At(ev) # {}

\* every event named a comes before every event named b
Before(a, b) == \A i \in At(a), j \in At(b) : i < j

\* the callbacks the history shows as called, in the order of the calls
Called(kind) ==
    LET called == SelectSeq(events, LAMBDA e : e.ev = kind)
    IN  [i \in 1..Len(called) |-> Callback(called[i].n, called[i].raised)]

\* the discovery client was asked to do op for service
Asked(op, service) ==
    \E i \in 1..Len(registry_calls) :
        /\ registry_calls[i].op = op
        /\ registry_calls[i].service = service

\* service is in the registry: a register_service call for it returned True
Registered(service) ==
    \E i \in 1..Len(registry_calls) :
        registry_calls[i] = RegistryCall("register", service, "True")

\* C12: when the application has a lifespan L before setup_lifecycle_events,
\* the installed lifespan enters L after initialize_components, yields the
\* state L yields, and leaves L before cleanup_components.
C12_OriginalLifespanChained ==
    configured # "none" =>
        /\ Happened("yield") =>
               /\ Happened("L entered")
               /\ Before("started", "L entered")
               /\ Before("L entered", "yield")
               /\ yielded = "state of L"
        /\ Happened("stopping") =>
               /\ Happened("L exited")
               /\ Before("L exited", "stopping")

\* C13: a service that registered at startup is deregistered at shutdown:
\* after a successful register_service of the manager and the shutdown of
\* its lifespan the discovery client has received a deregister call for the
\* service, and so it has after the Admin lifespan registered and exited.
C13_RegisteredThenDeregistered ==
    /\ (register_result = "True" /\ mpc = "stopped") =>
           Asked("deregister", "managed")
    /\ (Registered("admin") /\ apc = "exited") =>
           Asked("deregister", "admin")

\* C14: initialize_components calls every startup callback once, in the
\* order of registration, whether or not one of them raises, and lets no
\* exception out; cleanup_components does the same with the shutdown
\* callbacks.
C14_CallbacksAllRunInOrder ==
    /\ mpc # "failed"
    /\ Len(Called("startup_callback")) <= Len(startup_callbacks)
    /\ Len(Called("shutdown_callback")) <= Len(shutdown_callbacks)
    /\ Called("startup_callback") =
           SubSeq(startup_callbacks, 1, Len(Called("startup_callback")))
    /\ Called("shutdown_callback") =
           SubSeq(shutdown_callbacks, 1, Len(Called("shutdown_callback")))
    /\ Happened("started") => Called("startup_callback") = startup_callbacks
    /\ Happened("close_service_discovery") =>
           Called("shutdown_callback") = shutdown_callbacks

\* C14 witness: two startup callbacks of which the first raised and two
\* shutdown callbacks of which the first raised have all been called, and
\* the lifespan has ended.
C14_Witness ==
    /\ mpc = "stopped"
    /\ Len(startup_callbacks) = 2
    /\ startup_callbacks[1].raises
    /\ Len(shutdown_callbacks) = 2
    /\ shutdown_callbacks[1].raises
    /\ Len(Called("startup_callback")) = 2
    /\ Len(Called("shutdown_callback")) = 2

\* C15: the installed lifespan yields only after initialize_components has
\* called the startup callbacks and returned; at shutdown the shutdown
\* callbacks come first, then the discovery client is closed, then the
\* shared HTTP client, and only then deregister_service is called.
C15_LifespanOrder ==
    /\ Happened("yield") =>
           /\ Happened("started")
           /\ Before("started", "yield")
           /\ Before("startup_callback", "started")
           /\ Len(Called("startup_callback")) = Len(startup_callbacks)
    /\ Before("yield", "shutdown_callback")
    /\ Happened("deregister_service") =>
           /\ Len(Called("shutdown_callback")) = Len(shutdown_callbacks)
           /\ Happened("close_service_discovery")
           /\ Happened("close_http_client")
           /\ Before("shutdown_callback", "close_service_discovery")
           /\ Before("close_service_discovery", "close_http_client")
           /\ Before("close_http_client", "deregister_service")

\* C15 witness: a lifespan with a startup and a shutdown callback has run to
\* the call of deregister_service.
C15_Witness ==
    /\ Happened("deregister_service")
    /\ Happened("startup_callback")
    /\ Happened("shutdown_callback")

\* the entries of the Admin lifespan's history
AdminDid(what) == \E i \in 1..Len(admin_events) : admin_events[i] = what

\* C16: when create_db_and_tables fails in the Admin lifespan the failure
\* is logged and raised again: no registration is attempted, the lifespan
\* does not yield, and the exception leaves the lifespan.
C16_DatabaseFailureIsFatal ==
    AdminDid("create_db_and_tables raised") =>
        /\ AdminDid("startup failure logged")
        /\ apc = "failed"
        /\ ~Asked("register", "admin")
        /\ ~AdminDid("yield")

\* C16 witness: create_db_and_tables has raised.
C16_Witness == AdminDid("create_db_and_tables raised")

\* C17: the Admin lifespan reaches its yield only if the registration
\* succeeded, and a register_service call that reports failure makes the
\* startup fail.
C17_NoYieldWithoutRegistration ==
    /\ AdminDid("yield") => Registered("admin")
    /\ Asked("register", "admin") /\ ~Registered("admin") => apc = "failed"

(***************************************************************************)
(* core/http_client.py: the shared client                                  *)
(*                                                                         *)
(* SpecClient  the tasks of one event loop call get_http_client and        *)
(*             close_http_client; a task is suspended only inside          *)
(*             close_http_client, at `await _http_client.close()`.         *)
(***************************************************************************)
\* the number of tasks
MaxTasks == 2

\* the most entries of the client_calls history
MaxClientCalls == 6

Tasks == 1..MaxTasks

\* _http_client = None; the instances are numbered from 1 in the order of
\* their construction
NoClient == 0

\* an entry of the client_calls history: task t called get_http_client and
\* got client ("get"), called close_http_client while the global was client
\* ("close"), or came back from the await in it ("closed")
ClientCall(op, t, client) == [op |-> op, task |-> t, client |-> client]

InitClient ==
    /\ http_client = NoClient
    /\ created = 0
    /\ closed = {}
    /\ tpc = [t \in Tasks |-> "idle"]
    /\ closing = [t \in Tasks |-> NoClient]
    /\ client_calls = <<>>
    /\ IdleHttp
    /\ IdleUser
    /\ IdleLife
    /\ IdleRace
    /\ IdleTrace
    /\ IdleRequest
    /\ IdleErrors

\* get_http_client(): there is no await in it
get_http_clientAlwaysNew(t) ==
    /\ tpc[t] = "idle"
    /\ Len(client_calls) < MaxClientCalls
    /\ created' = created + 1
    /\ http_client' = created + 1
    /\ client_calls' = Append(client_calls, ClientCall("get", t, http_client'))
    /\ UNCHANGED <<closed, tpc, closing>>
    /\ UNCHANGED exceptClient

get_http_client(t) ==
    /\ tpc[t] = "idle"
    /\ Len(client_calls) < MaxClientCalls
    /\ IF http_client = NoClient
       THEN /\ created' = created + 1
            /\ http_client' = created + 1
       ELSE UNCHANGED <<created, http_client>>
    /\ client_calls' = Append(client_calls, ClientCall("get", t, http_client'))
    /\ UNCHANGED <<closed, tpc, closing>>
    /\ UNCHANGED exceptClient

\* close_http_client() up to its await: with no instance it returns, with
\* one it calls the instance's close() and is suspended in it
close_http_client(t) ==
    /\ tpc[t] = "idle"
    /\ Len(client_calls) < MaxClientCalls
    /\ client_calls' = Append(client_calls, ClientCall("close", t, http_client))
    /\ IF http_client # NoClient
       THEN /\ tpc' = [tpc EXCEPT ![t] = "closing"]
            /\ closing' = [closing EXCEPT ![t] = http_client]
       ELSE UNCHANGED <<tpc, closing>>
    /\ UNCHANGED <<http_client, created, closed>>
    /\ UNCHANGED exceptClient

\* close_http_client() from its await on: close() has finished, and the
\* global is set to None
closeReturns(t) ==
    /\ tpc[t] = "closing"
    /\ closed' = closed \cup {closing[t]}
    /\ http_client' = NoClient
    /\ client_calls' = Append(client_calls, ClientCall("closed", t, closing[t]))
    /\ tpc' = [tpc EXCEPT ![t] = "idle"]
    /\ closing' = [closing EXCEPT ![t] = NoClient]
    /\ UNCHANGED created
    /\ UNCHANGED exceptClient

NextClient ==
    \/ \E t \in Tasks : get_http_client(t)
    \/ \E t \in Tasks : close_http_client(t)
    \/ \E t \in Tasks : closeReturns(t)

SpecClient == InitClient /\ [][NextClient]_vars

(***************************************************************************)
(* Claims about the shared client                                          *)
(***************************************************************************)
\* the positions of the history with a call of op
CallsOf(op) == {i \in 1..Len(client_calls) : client_calls[i].op = op}

\* no close_http_client was called or came back between positions i and j
NoCloseBetween(i, j) ==
    \A k \in (i + 1)..(j - 1) : client_calls[k].op = "get"

\* C18: get_http_client returns the same instance on every call until
\* close_http_client runs; close_http_client closes that instance and sets
\* the global to None, so that the next get_http_client constructs a new
\* instance; close_http_client with no instance changes nothing.
C18_SharedClient ==
    /\ \A i \in CallsOf("get"), j \in CallsOf("get") :
           (i < j /\ NoCloseBetween(i, j)) =>
               client_calls[i].client = client_calls[j].client
    /\ \A i \in CallsOf("close"), j \in CallsOf("get") :
           (j < i /\ NoCloseBetween(j, i)) =>
               client_calls[i].client = client_calls[j].client
    /\ \A i \in CallsOf("closed") :
           /\ client_calls[i].client \in closed
           /\ i = Len(client_calls) => http_client = NoClient
           /\ (i < Len(client_calls) /\ client_calls[i + 1].op = "get") =>
                  \A k \in 1..i : client_calls[i + 1].client # client_calls[k].client
    /\ \A i \in CallsOf("close") :
           (client_calls[i].client = NoClient /\ i = Len(client_calls)) =>
               /\ http_client = NoClient
               /\ closed = {c \in 1..created : \E k \in CallsOf("closed") :
                                k < i /\ client_calls[k].client = c}
               /\ \A t \in Tasks : tpc[t] = "idle" => closing[t] = NoClient
               /\ tpc[client_calls[i].task] = "idle"

\* C18 witness: close_http_client with no instance, then two calls of
\* get_http_client that return the same instance, a close_http_client that
\* closes it, and a get_http_client that returns another one.
C18_Witness ==
    /\ Len(client_calls) = 6
    /\ client_calls[1].op = "close" /\ client_calls[1].client = NoClient
    /\ client_calls[2].op = "get"
    /\ client_calls[3].op = "get"
    /\ client_calls[3].client = client_calls[2].client
    /\ client_calls[4].op = "close"
    /\ client_calls[5].op = "closed"
    /\ client_calls[5].client = client_calls[2].client
    /\ client_calls[6].op = "get"
    /\ client_calls[6].client # client_calls[2].client
    /\ client_calls[2].client \in closed

(***************************************************************************)
(* services/admin/app/api/user.py: concurrent POST /user                   *)
(*                                                                         *)
(* SpecRace  every task of the event loop holds a POST /user request that  *)
(*           has been parsed and authenticated; the loop runs the handlers *)
(*           in any order.  A coroutine gives up the loop only at an       *)
(*           await, and the body of create has none: db.exec, db.add,      *)
(*           db.commit and db.refresh are calls on a synchronous Session.  *)
(***************************************************************************)
\* a request on its way through the server
Inflight(data, phase, response) ==
    [data |-> data, phase |-> phase, resp |-> response]

InitRace ==
    /\ table = (1 :> SeedAdmin)
    /\ clock = 1
    /\ issued = {}
    /\ req = NoRequest
    /\ resp = NoResponse
    /\ inflight \in [Tasks -> {Inflight(data, "received", NoResponse) :
                                  data \in ValidBodies}]
    /\ IdleHttp
    /\ IdleLife
    /\ IdleClient
    /\ IdleTrace
    /\ IdleRequest
    /\ IdleErrors

\* the row create() inserts for the body data
NewUser(data) ==
    LET now == [minute |-> clock, us |-> 0] IN
    [id |-> NewId,
     created_time |-> Strftime(now),
     updated_time |-> Strftime(now),
     name |-> data.name,
     username |-> data.username,
     password |-> set_password_hash(data.password),
     status |-> data.status,
     description |-> data.description,
     is_superuser |-> FALSE]

\* the event loop runs the handler of task t: create() with an await
\* between the search for the username and the insert
createHandlerSuspending(t) ==
    /\ inflight[t].phase \in {"received", "checked"}
    /\ LET data == inflight[t].data IN
       IF inflight[t].phase = "checked"
       THEN /\ table' = table @@ (NewId :> NewUser(data))
            /\ inflight' = [inflight EXCEPT ![t] =
                   Inflight(data, "responded",
                            SuccessResponse("user", UserOut(NewUser(data))))]
       ELSE IF ByUsername(data.username) # {}
       THEN /\ inflight' = [inflight EXCEPT ![t] =
                   Inflight(data, "responded",
                            ErrorResponse("username already exists"))]
            /\ UNCHANGED table
       ELSE /\ inflight' = [inflight EXCEPT ![t] =
                   Inflight(data, "checked", NoResponse)]
            /\ UNCHANGED table
    /\ UNCHANGED <<clock, issued, req, resp>>
    /\ UNCHANGED exceptRace

\* the event loop runs the handler of task t: create(), from its first
\* statement to its return
createHandler(t) ==
    /\ inflight[t].phase = "received"
    /\ LET data == inflight[t].data IN
       IF ByUsername(data.username) # {}
       THEN /\ inflight' = [inflight EXCEPT ![t] =
                   Inflight(data, "responded",
                            ErrorResponse("username already exists"))]
            /\ UNCHANGED table
       ELSE /\ table' = table @@ (NewId :> NewUser(data))
            /\ inflight' = [inflight EXCEPT ![t] =
                   Inflight(data, "responded",
                            SuccessResponse("user", UserOut(NewUser(data))))]
    /\ UNCHANGED <<clock, issued, req, resp>>
    /\ UNCHANGED exceptRace

NextRace == \E t \in Tasks : createHandler(t)

SpecRace == InitRace /\ [][NextRace]_vars

(***************************************************************************)
(* Claims about concurrent POST /user                                      *)
(***************************************************************************)
\* the tasks whose request carries username
Posting(username) == {t \in Tasks : inflight[t].data.username = username}

\* the tasks whose request was answered with kind
Answered(kind) ==
    {t \in Tasks : inflight[t].phase = "responded" /\ inflight[t].resp.kind = kind}

\* C19 (as claimed): a POST /user request that has passed the existence
\* check can be suspended before it commits, so that a second request with
\* the same username passes the check too and two rows result: the step in
\* which a request finds its username free does not insert the row yet.
C19_CheckAndCommitInterleave ==
    [][\A t \in Tasks :
          (/\ inflight[t].phase = "received"
           /\ inflight'[t].phase # "received"
           /\ ByUsername(inflight[t].data.username) = {})
          => table' = table]_vars

\* C19 (amended): create() runs from its existence check to its commit
\* without an await, so of the concurrent POST /user requests with one new
\* username exactly one is answered with the new row and every other one
\* with the error, and the table never holds two rows with that username.
C19_CreateIsAtomic ==
    \A u \in Usernames :
        /\ Cardinality(ByUsername(u)) <= 1
        /\ \A t \in Answered("Success") \cap Posting(u) :
               /\ ByUsername(u) # {}
               /\ \A o \in (Answered("Success") \cap Posting(u)) : o = t
        /\ (u # SeedAdmin.username
            /\ \A t \in Posting(u) : inflight[t].phase = "responded")
           => \/ Posting(u) = {}
              \/ Cardinality(Answered("Success") \cap Posting(u)) = 1

\* C19 witness: two requests with the same new username have both been
\* answered, one with the new row and one with the error, and one row
\* holds the username.
C19_Witness ==
    /\ Posting("u2") = {1, 2}
    /\ Answered("Success") \cap Posting("u2") # {}
    /\ Answered("Error") \cap Posting("u2") # {}
    /\ \A t \in {1, 2} : inflight[t].phase = "responded"
    /\ Cardinality(ByUsername("u2")) = 1

(***************************************************************************)
(* services/gateway/utils/monitoring.py                                    *)
(*                                                                         *)
(* SpecTrace  calls of start_trace and end_trace on one MonitoringManager. *)
(***************************************************************************)
\* the most calls of start_trace and end_trace in a run
MaxTraceCalls == 4

\* a string: one that came in a header, or the text of uuid4 number uuid
\* (the n-th uuid4() of the process)
HeaderString(s) == [header |-> s, uuid |-> 0]

UuidString(n) == [header |-> "", uuid |-> n]

EmptyString == HeaderString("")

\* the values of the parameter trace_id: None or a string
NoTraceId == [kind |-> "None", id |-> EmptyString]

GivenTraceId(id) == [kind |-> "str", id |-> id]

\* the strings a caller passes: empty, made up by a client, or a trace id
\* this process generated earlier
TraceIdArguments ==
    {NoTraceId} \cup
    {GivenTraceId(HeaderString(s)) : s \in {"", "t1"}} \cup
    {GivenTraceId(UuidString(n)) : n \in 1..uuids}

\* Python's truth value of trace_id in `trace_id or str(uuid.uuid4())`
Truthy(trace_id) == trace_id.kind = "str" /\ trace_id.id # EmptyString

\* MonitoringContext(trace_id): the trace id, the span id, how many times
\* finish() has set end_time and duration, the keys of tags, and logs
MonitoringContext(trace_id) ==
    IF Truthy(trace_id)
    THEN [trace_id |-> trace_id.id, span_id |-> UuidString(uuids + 1),
          finished |-> 0, tags |-> {}, logs |-> <<>>]
    ELSE [trace_id |-> UuidString(uuids + 1), span_id |-> UuidString(uuids + 2),
          finished |-> 0, tags |-> {}, logs |-> <<>>]

\* the number of uuid4() calls MonitoringContext(trace_id) makes
UuidsDrawn(trace_id) == IF Truthy(trace_id) THEN 1 ELSE 2

\* the dict d with d[key] = value
DictSet(d, key, value) ==
    [k \in DOMAIN d \cup {key} |-> IF k = key THEN value ELSE d[k]]

\* the dict d after del d[key]
DictDel(d, key) == [k \in DOMAIN d \ {key} |-> d[k]]

\* the entry of the last_trace history: call number n was op on context ctx
\* and raised or returned
TraceCall(op, ctx, n, raised) == [op |-> op, ctx |-> ctx, n |-> n, raised |-> raised]

\* no call of extract_trace_context yet
NotExtracted == [n |-> 0]

\* the calls made so far
TraceCalls == last_trace.n + extracted.n

\* request.headers.get("X-Trace-ID", default) read as `get(...) or default`
HeaderGetOr(header, default) ==
    IF Truthy(header) THEN header.id ELSE default

\* request.headers.get("X-Trace-ID", default): the header's value when the
\* request has the header, the default otherwise
HeaderGet(header, default) ==
    IF header.kind = "str" THEN header.id ELSE default

InitTrace ==
    /\ active_traces = <<>>
    /\ contexts = <<>>
    /\ uuids = 0
    /\ last_trace = TraceCall("None", 0, 0, FALSE)
    /\ extracted = NotExtracted
    /\ IdleHttp
    /\ IdleUser
    /\ IdleLife
    /\ IdleClient
    /\ IdleRace
    /\ IdleRequest
    /\ IdleErrors

\* MonitoringManager.start_trace(trace_id); contexts are numbered in the
\* order of their construction
start_trace(trace_id) ==
    /\ TraceCalls < MaxTraceCalls
    /\ LET context == MonitoringContext(trace_id) IN
       /\ contexts' = Append(contexts, context)
       /\ active_traces' =
              DictSet(active_traces, context.trace_id, Len(contexts) + 1)
    /\ uuids' = uuids + UuidsDrawn(trace_id)
    /\ last_trace' =
           TraceCall("start_trace", Len(contexts) + 1, last_trace.n + 1, FALSE)
    /\ UNCHANGED extracted
    /\ UNCHANGED exceptTrace

\* MonitoringManager.end_trace(context) with `del` not guarded by the
\* membership test
end_traceUnguarded(c) ==
    /\ TraceCalls < MaxTraceCalls
    /\ c \in 1..Len(contexts)
    /\ contexts' = [contexts EXCEPT ![c].finished = @ + 1]
    /\ IF contexts[c].trace_id \in DOMAIN active_traces
       THEN /\ active_traces' = DictDel(active_traces, contexts[c].trace_id)
            /\ last_trace' = TraceCall("end_trace", c, last_trace.n + 1, FALSE)
       ELSE /\ UNCHANGED active_traces
            /\ last_trace' = TraceCall("end_trace", c, last_trace.n + 1, TRUE)
    /\ UNCHANGED uuids
    /\ UNCHANGED extracted
    /\ UNCHANGED exceptTrace

\* MonitoringManager.end_trace(context), context being context number c
end_trace(c) ==
    /\ TraceCalls < MaxTraceCalls
    /\ c \in 1..Len(contexts)
    /\ contexts' = [contexts EXCEPT ![c].finished = @ + 1]
    /\ active_traces' =
           IF contexts[c].trace_id \in DOMAIN active_traces
           THEN DictDel(active_traces, contexts[c].trace_id)
           ELSE active_traces
    /\ last_trace' = TraceCall("end_trace", c, last_trace.n + 1, FALSE)
    /\ UNCHANGED uuids
    /\ UNCHANGED extracted
    /\ UNCHANGED exceptTrace

\* MonitoringManager.trace_request(request, response), header being the
\* request's X-Trace-ID: None when the request has none
trace_request(header) ==
    /\ TraceCalls < MaxTraceCalls
    /\ LET started == MonitoringContext(header)
           context == [started EXCEPT
                          !.tags = {"http.method", "http.url", "http.host"},
                          !.logs = <<"request started">>]
       IN /\ contexts' = Append(contexts, context)
          /\ active_traces' =
                 DictSet(active_traces, context.trace_id, Len(contexts) + 1)
    /\ uuids' = uuids + UuidsDrawn(header)
    /\ last_trace' =
           TraceCall("trace_request", Len(contexts) + 1, last_trace.n + 1, FALSE)
    /\ UNCHANGED extracted
    /\ UNCHANGED exceptTrace

\* extract_trace_context(request): both uuid4() calls are made, the first
\* one for the default of headers.get
extract_trace_context(header) ==
    /\ TraceCalls < MaxTraceCalls
    /\ extracted' = [n |-> extracted.n + 1,
                     header |-> header,
                     before |-> uuids,
                     trace_id |-> HeaderGet(header, UuidString(uuids + 1)),
                     span_id |-> UuidString(uuids + 2)]
    /\ uuids' = uuids + 2
    /\ UNCHANGED <<active_traces, contexts, last_trace>>
    /\ UNCHANGED exceptTrace

NextTrace ==
    \/ \E trace_id \in TraceIdArguments : start_trace(trace_id)
    \/ \E header \in TraceIdArguments : trace_request(header)
    \/ \E header \in TraceIdArguments : extract_trace_context(header)
    \/ \E c \in 1..Len(contexts) : end_trace(c)

SpecTrace == InitTrace /\ [][NextTrace]_vars

(***************************************************************************)
(* Claims about monitoring                                                 *)
(***************************************************************************)
\* C20: end_trace(context) removes the entry for context.trace_id from
\* active_traces and nothing else, and a second end_trace with the same
\* context, right after the first, leaves active_traces as it is; neither
\* call raises.
C20_EndTraceIdempotent ==
    [][\A c \in 1..Len(contexts) :
          last_trace' = TraceCall("end_trace", c, last_trace.n + 1,
                                  last_trace'.raised)
          => /\ ~last_trace'.raised
             /\ contexts[c].trace_id \notin DOMAIN active_traces'
             /\ DOMAIN active_traces' =
                    DOMAIN active_traces \ {contexts[c].trace_id}
             /\ \A k \in DOMAIN active_traces' :
                    active_traces'[k] = active_traces[k]
             /\ (last_trace.op = "end_trace" /\ last_trace.ctx = c)
                    => active_traces' = active_traces]_vars

\* C20 witness: a trace was started, ended, and ended once more.
C20_Witness ==
    /\ Len(contexts) = 1
    /\ last_trace = TraceCall("end_trace", 1, 3, FALSE)
    /\ contexts[1].finished = 2
    /\ active_traces = <<>>

\* C25: no HttpClient is lost unclosed: once every close_http_client call
\* that was started has come back and the global is None, every instance
\* get_http_client has constructed is closed.
C25_NoClientLostUnclosed ==
    ((\A t \in Tasks : tpc[t] = "idle") /\ http_client = NoClient) =>
        \A c \in 1..created : c \in closed

\* the last call the discovery client received for op of the managed
\* service had this outcome
LastOutcome(op, outcome) ==
    \E i \in 1..Len(registry_calls) :
        /\ registry_calls[i] = RegistryCall(op, "managed", outcome)
        /\ \A j \in (i + 1)..Len(registry_calls) :
               ~(registry_calls[j].op = op /\ registry_calls[j].service = "managed")

\* C28: the manager's register_service and deregister_service let no
\* exception out: an exception of the discovery client becomes the result
\* False, as does its answer False, and its answer True the result True;
\* with no service id deregister_service returns True and the registry is
\* not contacted.
C28_RegistryCallsNeverRaise ==
    /\ register_result \in {"not called", "True", "False"}
    /\ deregister_result \in {"not called", "True", "False"}
    /\ register_result = "not called" <=> ~Asked("register", "managed")
    /\ register_result = "True" <=> LastOutcome("register", "True")
    /\ LastOutcome("register", "raises") => register_result = "False"
    /\ deregister_result # "not called" <=> mpc = "stopped"
    /\ (mpc = "stopped" /\ service_id = None) =>
           /\ deregister_result = "True"
           /\ ~Asked("deregister", "managed")
    /\ (mpc = "stopped" /\ service_id # None) =>
           /\ Asked("deregister", "managed")
           /\ deregister_result = "True" <=> LastOutcome("deregister", "True")
           /\ LastOutcome("deregister", "raises") => deregister_result = "False"

\* C28 witness: the discovery client raised in register_service and in
\* deregister_service, both returned False, and the lifespan ended.
C28_Witness ==
    /\ mpc = "stopped"
    /\ service_id # None
    /\ LastOutcome("register", "raises")
    /\ LastOutcome("deregister", "raises")
    /\ register_result = "False"
    /\ deregister_result = "False"

\* C27: a successful POST /logout leaves the User table and the issued
\* tokens as they are: its only effect is user_id = None in the scope of the
\* logout request, and the token it was given, unless expired, still decodes
\* and still authenticates its user afterwards.
C27_LogoutFrame ==
    [][ (req'.op = "logout" /\ clock' = clock + 1 /\ resp'.kind = "Success") =>
        /\ table' = table
        /\ issued' = issued
        /\ req'.scope_user_id = None
        /\ \A token \in issued :
               (token = req'.token /\ token.exp > clock') =>
                   /\ token \in issued'
                   /\ \E i \in DOMAIN table' :
                          /\ table'[i].username = token.sub
                          /\ table'[i].status ]_vars

\* C27 witness: a logout has succeeded, and the token it was given still
\* authenticates its user.
C27_Witness ==
    /\ req.op = "logout"
    /\ resp.kind = "Success"
    /\ req.scope_user_id = None
    /\ Authenticated(req.token)

\* C21: extract_trace_context returns the X-Trace-ID header of the request
\* as it is whenever the request has one, and a newly generated id when it
\* has none; the X-Span-ID it returns is newly generated and differs from
\* the trace id returned.
C21_ExtractTraceContext ==
    extracted # NotExtracted =>
        /\ extracted.header.kind = "str" =>
               extracted.trace_id = extracted.header.id
        /\ extracted.header.kind = "None" =>
               /\ extracted.trace_id.header = ""
               /\ extracted.trace_id.uuid > extracted.before
        /\ extracted.span_id.header = ""
        /\ extracted.span_id.uuid > extracted.before
        /\ extracted.span_id # extracted.trace_id

\* C21 witness: a request whose X-Trace-ID header is the empty string got
\* the empty string back as its trace id.
C21_Witness ==
    /\ extracted # NotExtracted
    /\ extracted.header = GivenTraceId(EmptyString)
    /\ extracted.trace_id = EmptyString

\* C26: every context that was started and has not been ended is the entry
\* of active_traces under its trace id, whatever start_trace, trace_request
\* and end_trace calls were made, so that ending one context never removes
\* the entry of another.
C26_StartedContextsStayActive ==
    \A c \in 1..Len(contexts) :
        contexts[c].finished = 0 =>
            /\ contexts[c].trace_id \in DOMAIN active_traces
            /\ active_traces[contexts[c].trace_id] = c

(***************************************************************************)
(* core/exceptions.py: the handlers of register_exception_handlers         *)
(*                                                                         *)
(* SpecErrors  exceptions leave route handlers, one after the other, and   *)
(*           each is handled by the handler registered for its class.      *)
(***************************************************************************)
\* the number of exceptions that leave route handlers
MaxRaised == 2

\* str(exc) of the exceptions that are neither AppException nor HTTP ones
Messages == {"database is locked", "no such table: user"}

\* message="服务器内部错误" of general_exception_handler
GenericMessage == "internal server error"

\* an exception object: its class, the classes type(exc).__mro__ lists, and
\* its text (exc.message, exc.detail or str(exc))
ExceptionObject(class, mro, message, status_code, details) ==
    [kind |-> "Exception", class |-> class, mro |-> mro, message |-> message,
     status_code |-> status_code, details |-> details]

\* AppException(message, status_code), details = details or {}
AppException(message, status_code) ==
    ExceptionObject("AppException", <<"AppException", "Exception">>,
                    message, status_code, "{}")

\* a subclass of AppException calling super().__init__ with its status code
AppExceptionSubclass(class, message, status_code) ==
    ExceptionObject(class, <<class, "AppException", "Exception">>,
                    message, status_code, "{}")

ValidationError(message) ==
    AppExceptionSubclass("ValidationError", message, 400)
AuthenticationError(message) ==
    AppExceptionSubclass("AuthenticationError", message, 401)
AuthorizationError(message) ==
    AppExceptionSubclass("AuthorizationError", message, 403)
NotFoundError(message) == AppExceptionSubclass("NotFoundError", message, 404)

\* fastapi.HTTPException, a subclass of starlette's HTTPException
HTTPException(status_code, text) ==
    ExceptionObject("HTTPException",
                    <<"HTTPException", "StarletteHTTPException", "Exception">>,
                    text, status_code, None)

\* starlette.exceptions.HTTPException
StarletteHTTPException(status_code, text) ==
    ExceptionObject("StarletteHTTPException",
                    <<"StarletteHTTPException", "Exception">>,
                    text, status_code, None)

\* any other exception: it has no status code
OtherException(class, message) ==
    ExceptionObject(class, <<class, "Exception">>, message, 0, None)

\* the exceptions a route handler or one of its dependencies lets escape
Raisable ==
    {AppException("application exception", 500),
     ValidationError("validation failed"),
     AuthenticationError("authentication failed"),
     AuthorizationError("permission denied"),
     NotFoundError("not found"),
     HTTPException(422, "unprocessable"),
     StarletteHTTPException(405, "method not allowed")}
    \cup {OtherException(class, m) :
             class \in {"OperationalError", "ValueError"}, m \in Messages}

\* ErrorResponse(data=..., message=..., status_code=...)
ErrorResponseWith(data, message, status_code) ==
    [kind |-> "Error", status_code |-> status_code, shape |-> "none",
     message |-> message, data |-> data]

\* a call of logger.error or logger.warning
LogRecord(level, message, exc_info) ==
    [level |-> level, message |-> message, exc_info |-> exc_info]

\* what an exception handler does: the response it returns, the record it logs
Handled(response, log) == [response |-> response, log |-> log]

app_exception_handler(exc) ==
    Handled(ErrorResponseWith(exc.details, exc.message, exc.status_code),
            LogRecord("error", exc.message, FALSE))

http_exception_handler(exc) ==
    Handled(ErrorResponseWith(None, exc.message, exc.status_code),
            LogRecord("warning", exc.message, FALSE))

starlette_http_exception_handler(exc) ==
    Handled(ErrorResponseWith(None, exc.message, exc.status_code),
            LogRecord("warning", exc.message, FALSE))

\* general_exception_handler answering with the text of the exception
general_exception_handlerEchoes(exc) ==
    Handled(ExceptResponse(exc.message),
            LogRecord("error", exc.message, TRUE))

\* general_exception_handler: str(exc) goes to the log, the response has
\* the fixed message and status 500
general_exception_handler(exc) ==
    Handled(ExceptResponse(GenericMessage),
            LogRecord("error", exc.message, TRUE))

\* the classes @app.exception_handler(...) registers a handler for
exception_handlers ==
    {"AppException", "HTTPException", "StarletteHTTPException", "Exception"}

\* the registered class the exception is dispatched on: the first class of
\* type(exc).__mro__ that has a handler
HandlerClass(exc) ==
    LET i == CHOOSE i \in 1..Len(exc.mro) :
                 /\ exc.mro[i] \in exception_handlers
                 /\ \A j \in 1..(i - 1) : exc.mro[j] \notin exception_handlers
    IN exc.mro[i]

\* the application with register_exception_handlers(app) handling exc
HandleException(exc) ==
    CASE HandlerClass(exc) = "AppException" -> app_exception_handler(exc)
      [] HandlerClass(exc) = "HTTPException" -> http_exception_handler(exc)
      [] HandlerClass(exc) = "StarletteHTTPException" ->
             starlette_http_exception_handler(exc)
      [] HandlerClass(exc) = "Exception" -> general_exception_handler(exc)

InitErrors ==
    /\ raised_exc = NoException
    /\ rendered = NoResponse
    /\ logged = <<>>
    /\ IdleHttp
    /\ IdleUser
    /\ IdleLife
    /\ IdleClient
    /\ IdleRace
    /\ IdleTrace
    /\ IdleRequest

\* exc leaves a route handler and reaches the handlers of
\* register_exception_handlers
exception_handler(exc) ==
    /\ Len(logged) < MaxRaised
    /\ raised_exc' = exc
    /\ rendered' = HandleException(exc).response
    /\ logged' = Append(logged, HandleException(exc).log)
    /\ UNCHANGED exceptErrors

NextErrors == \E exc \in Raisable : exception_handler(exc)

SpecErrors == InitErrors /\ [][NextErrors]_vars

\* exc is neither an AppException nor an HTTP exception
Unclassified(exc) ==
    \A i \in 1..Len(exc.mro) :
        exc.mro[i] \notin {"AppException", "HTTPException",
                           "StarletteHTTPException"}

\* C22: an exception that is neither an AppException nor an HTTP exception
\* is answered with status 500 and exactly the generic message, the same
\* response whatever the exception says; its text is in the log only
C22_GenericResponseNeverLeaks ==
    (raised_exc.kind = "Exception" /\ Unclassified(raised_exc)) =>
        /\ rendered = ExceptResponse(GenericMessage)
        /\ rendered.status_code = 500
        /\ rendered.message # raised_exc.message
        /\ logged[Len(logged)].message = raised_exc.message

C22_Witness ==
    /\ raised_exc.kind = "Exception"
    /\ Unclassified(raised_exc)
    /\ raised_exc.message = "database is locked"
    /\ rendered.kind = "Except"
    /\ Len(logged) = 2
    /\ logged[1].message = "no such table: user"

(***************************************************************************)
(* core/database.py: get_db                                                *)
(*                                                                         *)
(* SpecRequest  tasks serve requests.  FastAPI resolves Depends(get_db)    *)
(*           for a request by running get_db to its yield, calls the       *)
(*           route handler with the session, and resumes get_db when the   *)
(*           handler has returned or raised.                               *)
(***************************************************************************)
\* the number of requests the tasks receive in total
MaxRequests == 3

\* Session(bind=engine), constructed for request number request
Session(request) == [request |-> request, closed |-> FALSE, used_by |-> {}]

\* the request of a task: its number, where it is, how its handler ended
Position(request, at, outcome) ==
    [request |-> request, at |-> at, outcome |-> outcome]

\* how a route handler ends: it returns its result, returns an ErrorResponse
\* early, or raises
Outcomes == {"returned", "returned early", "raised"}

InitRequest ==
    /\ sessions = <<>>
    /\ served = 0
    /\ rpc = [t \in Tasks |-> Position(0, "idle", None)]
    /\ db = [t \in Tasks |-> 0]
    /\ IdleHttp
    /\ IdleUser
    /\ IdleLife
    /\ IdleClient
    /\ IdleRace
    /\ IdleTrace
    /\ IdleErrors

\* task t receives a request and FastAPI resolves Depends(get_db): get_db
\* runs to its yield, `with Session(bind=engine) as session: yield session`
get_db(t) ==
    /\ rpc[t].at \in {"idle", "responded"}
    /\ served < MaxRequests
    /\ served' = served + 1
    /\ sessions' = Append(sessions, Session(served + 1))
    /\ db' = [db EXCEPT ![t] = Len(sessions) + 1]
    /\ rpc' = [rpc EXCEPT ![t] = Position(served + 1, "handling", None)]
    /\ UNCHANGED exceptRequest

\* the route handler of task t runs statements on the session it was given
\* and returns, returns early, or raises (as does a dependency resolved
\* after get_db)
handlerEnds(t, outcome) ==
    /\ rpc[t].at = "handling"
    /\ sessions' = [sessions EXCEPT ![db[t]].used_by = @ \cup {rpc[t].request}]
    /\ rpc' = [rpc EXCEPT ![t].at = "exiting", ![t].outcome = outcome]
    /\ UNCHANGED <<served, db>>
    /\ UNCHANGED exceptRequest

\* get_db resumed, if the `with` statement closed the session on a normal
\* exit only
get_dbExitsLeaking(t) ==
    /\ rpc[t].at = "exiting"
    /\ sessions' = [sessions EXCEPT ![db[t]].closed =
                        (rpc[t].outcome # "raised")]
    /\ rpc' = [rpc EXCEPT ![t].at = "responded"]
    /\ UNCHANGED <<served, db>>
    /\ UNCHANGED exceptRequest

\* FastAPI resumes get_db after the handler, with the exception thrown in
\* at the yield if there is one: Session.__exit__ closes the session
get_dbExits(t) ==
    /\ rpc[t].at = "exiting"
    /\ sessions' = [sessions EXCEPT ![db[t]].closed = TRUE]
    /\ rpc' = [rpc EXCEPT ![t].at = "responded"]
    /\ UNCHANGED <<served, db>>
    /\ UNCHANGED exceptRequest

NextRequest ==
    \/ \E t \in Tasks : get_db(t)
    \/ \E t \in Tasks, outcome \in Outcomes : handlerEnds(t, outcome)
    \/ \E t \in Tasks : get_dbExits(t)

SpecRequest == InitRequest /\ [][NextRequest]_vars

\* a handler comes to its end, and FastAPI resumes the dependency
\* generators of a request whose handler has ended
SpecRequestFair ==
    /\ SpecRequest
    /\ \A t \in Tasks :
          WF_vars(\E outcome \in Outcomes : handlerEnds(t, outcome))
    /\ \A t \in Tasks : WF_vars(get_dbExits(t))

\* the request session s was made for is over
Over(s) ==
    \A t \in Tasks : rpc[t].request = sessions[s].request =>
                         rpc[t].at = "responded"

\* C23: every request has a session of its own, no session runs statements
\* for another request, a session is closed once get_db has been resumed,
\* whether the handler returned or raised, and every session opened is
\* eventually closed
C23_SessionPerRequestReleased ==
    /\ [](\A s \in 1..Len(sessions) :
            /\ sessions[s].used_by \subseteq {sessions[s].request}
            /\ \A t \in Tasks :
                   db[t] = s => rpc[t].request = sessions[s].request
            /\ Over(s) => sessions[s].closed)
    /\ \A s \in 1..MaxRequests :
          (Len(sessions) >= s) ~> (Len(sessions) >= s /\ sessions[s].closed)

C23_Witness ==
    \E t \in Tasks, u \in Tasks :
        /\ t # u
        /\ rpc[t].at = "responded"
        /\ rpc[t].outcome = "raised"
        /\ sessions[db[t]].closed
        /\ sessions[db[t]].used_by = {rpc[t].request}
        /\ rpc[u].at = "responded"
        /\ rpc[u].outcome = "returned early"
        /\ sessions[db[u]].closed
        /\ db[t] # db[u]

====
